---- MODULE Spec2Model ----
(***************************************************************************)
(* Model of the MCP server template: BaseMCPServer (configuration schema,  *)
(* constructor, transport selection, registration helpers, accessors,      *)
(* connect/start) and the example subclasses that extend it.               *)
(*                                                                         *)
(* JavaScript values are records tagged by t: "undefined", "string",       *)
(* "number", "nan" and "object".  A number is whole + frac/10 with         *)
(* whole = floor(value), so that non-integer numbers exist in the model.   *)
(***************************************************************************)
EXTENDS Integers, Sequences, FiniteSets, TLC

\* ------------------------------------------------------------------ values
Undefined == [t |-> "undefined"]
NaN == [t |-> "nan"]
Str(v) == [t |-> "string", v |-> v]
Num(w, f) == [t |-> "number", whole |-> w, frac |-> f]

RECURSIVE Rep(_, _)
Rep(c, n) == IF n = 0 THEN "" ELSE c \o Rep(c, n - 1)

HttpClass == "StreamableHTTPServerTransport"
StdioClass == "StdioServerTransport"

\* A transport object: its class, its identity and the option the HTTP
\* transport is constructed with.
TransportObj(c, i, g) ==
    [t |-> "object", class |-> c, id |-> i, sessionIdGenerator |-> g]

\* v instanceof c
InstanceOf(v, c) == v.t = "object" /\ v.class = c

\* JavaScript truthiness of the values the model uses.
Truthy(v) ==
    CASE v.t = "undefined" -> FALSE
      [] v.t = "nan" -> FALSE
      [] v.t = "string" -> v.v /= ""
      [] v.t = "number" -> ~(v.whole = 0 /\ v.frac = 0)
      [] OTHER -> TRUE

\* ------------------------------------------------------- schema constants
NameMin == 2
NameMax == 100
VersionMin == 1
VersionMax == 10
HostMin == 2
HostMax == 100
PortMin == 1
PortMax == 65535
DefaultHost == Str("localhost")
DefaultPort == Num(3000, 0)
DefaultTransportMode == Str("stdio")
TransportModes == {"streamable-http", "stdio"}

\* ------------------------------------------------------------- zod checks
\* Faulty variant: the maximum length is not checked.
ZString_NoMax(v, lo, hi) == v.t = "string" /\ Len(v.v) >= lo

\* z.string().min(lo).max(hi)
ZString(v, lo, hi) == v.t = "string" /\ Len(v.v) >= lo /\ Len(v.v) <= hi

\* Faulty variant: the minimum is off by one, so 0 passes min(1).
ZNumber_MinOffByOne(v, lo, hi) ==
    /\ v.t = "number"
    /\ v.whole >= lo - 1
    /\ (v.whole < hi \/ (v.whole = hi /\ v.frac = 0))

\* z.number().min(lo).max(hi): a number that is not NaN, lo <= v <= hi.
ZNumber(v, lo, hi) ==
    /\ v.t = "number"
    /\ v.whole >= lo
    /\ (v.whole < hi \/ (v.whole = hi /\ v.frac = 0))

\* z.enum([...])
ZEnum(v, options) == v.t = "string" /\ v.v \in options

\* Faulty variant: the default replaces every falsy input (v || d).
ZDefault_Falsy(v, d) == IF ~Truthy(v) THEN d ELSE v

\* schema.default(d): an undefined input is replaced by d before the check.
ZDefault(v, d) == IF v = Undefined THEN d ELSE v

\* z.union([z.instanceof(Http), z.instanceof(Stdio)]).optional()
ZTransport(v) ==
    v = Undefined \/ InstanceOf(v, HttpClass) \/ InstanceOf(v, StdioClass)

\* BaseMCPConfigSchema, used as safeParse: success and the parsed data.
BaseMCPConfigSchema(p) ==
    LET data == [name |-> p.name,
                 version |-> p.version,
                 host |-> ZDefault(p.host, DefaultHost),
                 port |-> ZDefault(p.port, DefaultPort),
                 transportMode |-> ZDefault(p.transportMode, DefaultTransportMode),
                 transport |-> p.transport]
    IN [success |-> /\ ZString(data.name, NameMin, NameMax)
                    /\ ZString(data.version, VersionMin, VersionMax)
                    /\ ZString(data.host, HostMin, HostMax)
                    /\ ZNumber(data.port, PortMin, PortMax)
                    /\ ZEnum(data.transportMode, TransportModes)
                    /\ ZTransport(data.transport),
        data |-> data]

\* ------------------------------------------------------------------ bounds
MaxConnects == 2
MaxConsole == 2
MaxRequests == 2

\* The server instances of a run.
Servers == {"server"}

\* ------------------------------------------------------------------ inputs
\* Transport objects the caller has created before constructing a server:
\* an HTTP transport with a session-id generator, a stdio transport and a
\* plain object that is neither.
CallerTransports ==
    {TransportObj(HttpClass, 1, "function"),
     TransportObj(StdioClass, 2, "undefined"),
     TransportObj("Object", 3, "undefined")}

NameInputs ==
    {Undefined, Num(42, 0), Str("T"), Str("Db"),
     Str(Rep("n", NameMax)), Str(Rep("n", NameMax + 1))}
VersionInputs ==
    {Undefined, Str(""), Str("1"), Str("1.0"), Str("1.0.0-beta"),
     Str("1.0.0-beta1")}
HostInputs ==
    {Undefined, Num(0, 0), Str("h"), Str("::"),
     Str(Rep("h", HostMax)), Str(Rep("h", HostMax + 1))}
PortInputs ==
    {Undefined, NaN, Str("8080"), Num(-1, 0), Num(0, 0), Num(0, 5),
     Num(PortMin, 0), Num(80, 5), Num(PortMax, 0), Num(PortMax, 5),
     Num(PortMax + 1, 0)}
TransportModeInputs ==
    {Undefined, Str("stdio"), Str("streamable-http"), Str("sse")}
TransportInputs == {Undefined} \cup CallerTransports

RawConfigs ==
    [name : NameInputs, version : VersionInputs, host : HostInputs,
     port : PortInputs, transportMode : TransportModeInputs,
     transport : TransportInputs]

NoParams ==
    [name |-> Undefined, version |-> Undefined, host |-> Undefined,
     port |-> Undefined, transportMode |-> Undefined, transport |-> Undefined]

\* ------------------------------------------------------------------- state
VARIABLES
    pc,               \* per server: "unconstructed", "hook", "returned", "threw"
    cls,              \* per server: the subclass of BaseMCPServer it is
    params,           \* per server: the record the constructor was called with
    name, version, host, port, transportMode,     \* BaseMCPServer fields
    httpTransporter, stdioTransporter,            \* BaseMCPServer fields
    tools, resources, \* per server: the protocol engine's registries
    engine,           \* per server: the transport bound by super.connect
    started,          \* ids of the transport objects that have been started
    nextId,           \* identity of the next transport object constructed
    console,          \* lines written by console.log
    thrown,           \* per server: error raised by the last operation
    result,           \* per server: result of the last tool invocation
    hookCalls,        \* per server: invocations of registerComponents
    connectCalls,     \* per server: calls of super.connect
    call,             \* per server: position of the connect()/start() in flight
    pending,          \* per server: the asynchronous handler that is suspended
    listener,         \* the HTTP application's listening socket
    framework,        \* major version of the web framework the build resolves
    requests          \* per inbound HTTP request: how far its handling has got

configVars == <<name, version, host, port, transportMode>>
transportVars == <<httpTransporter, stdioTransporter>>
registryVars == <<tools, resources>>
vars == <<pc, cls, params, name, version, host, port, transportMode,
          httpTransporter, stdioTransporter, tools, resources, engine,
          started, nextId, console, thrown, result, hookCalls,
          connectCalls, call, pending, listener, framework, requests>>
appVars == <<listener, framework, requests>>

NoError == "none"

\* A request slot no request has arrived in.
NoRequest ==
    [phase |-> "none", bound |-> FALSE, given |-> <<>>, answers |-> <<>>,
     error |-> NoError, socket |-> "open"]

\* The process runs no HTTP application.
NoApplication ==
    /\ listener = "closed"
    /\ framework = 5
    /\ requests = [r \in 1..MaxRequests |-> NoRequest]
NoResult == [isError |-> FALSE, text |-> "", structuredContent |-> Undefined]

Init ==
    /\ pc = [s \in Servers |-> "unconstructed"]
    /\ cls = [s \in Servers |-> "BaseMCPServer"]
    /\ params = [s \in Servers |-> NoParams]
    /\ name = [s \in Servers |-> Undefined]
    /\ version = [s \in Servers |-> Undefined]
    /\ host = [s \in Servers |-> Undefined]
    /\ port = [s \in Servers |-> Undefined]
    /\ transportMode = [s \in Servers |-> Undefined]
    /\ httpTransporter = [s \in Servers |-> Undefined]
    /\ stdioTransporter = [s \in Servers |-> Undefined]
    /\ tools = [s \in Servers |-> <<>>]
    /\ resources = [s \in Servers |-> <<>>]
    /\ engine = [s \in Servers |-> Undefined]
    /\ started = {}
    /\ nextId = Cardinality(CallerTransports) + 1
    /\ console = <<>>
    /\ thrown = [s \in Servers |-> NoError]
    /\ result = [s \in Servers |-> NoResult]
    /\ hookCalls = [s \in Servers |-> 0]
    /\ connectCalls = [s \in Servers |-> 0]
    /\ call = [s \in Servers |-> "idle"]
    /\ pending = [s \in Servers |-> "none"]
    /\ NoApplication

\* -------------------------------------------------------------- constructor
\* Faulty variants of initializeTransport.
\* Both transports are constructed whatever the mode.
InitializeTransport_Both(mode, customTransport, freshId) ==
    [http |-> TransportObj(HttpClass, freshId, "undefined"),
     stdio |-> TransportObj(StdioClass, freshId + 1, "undefined"),
     constructed |-> 2]

\* The supplied transport is never adopted.
InitializeTransport_IgnoresCustom(mode, customTransport, freshId) ==
    IF mode = Str("streamable-http")
    THEN [http |-> TransportObj(HttpClass, freshId, "undefined"),
          stdio |-> Undefined, constructed |-> 1]
    ELSE [http |-> Undefined,
          stdio |-> TransportObj(StdioClass, freshId, "undefined"),
          constructed |-> 1]

\* A supplied transport is adopted without the instanceof test.
InitializeTransport_AdoptsAny(mode, customTransport, freshId) ==
    IF mode = Str("streamable-http")
    THEN IF Truthy(customTransport)
         THEN [http |-> customTransport, stdio |-> Undefined, constructed |-> 0]
         ELSE [http |-> TransportObj(HttpClass, freshId, "undefined"),
               stdio |-> Undefined, constructed |-> 1]
    ELSE IF Truthy(customTransport)
         THEN [http |-> Undefined, stdio |-> customTransport, constructed |-> 0]
         ELSE [http |-> Undefined,
               stdio |-> TransportObj(StdioClass, freshId, "undefined"),
               constructed |-> 1]

\* Faulty variant: a supplied transport of the declared mode is adopted, and
\* no default is constructed when there is none.
InitializeTransport_NoDefault(mode, customTransport, freshId) ==
    IF mode = Str("streamable-http")
    THEN [http |-> IF InstanceOf(customTransport, HttpClass)
                   THEN customTransport ELSE Undefined,
          stdio |-> Undefined, constructed |-> 0]
    ELSE [http |-> Undefined,
          stdio |-> IF InstanceOf(customTransport, StdioClass)
                    THEN customTransport ELSE Undefined,
          constructed |-> 0]

\* The transport is not selected before the registration hook runs.
InitializeTransport_Deferred(mode, customTransport, freshId) ==
    [http |-> Undefined, stdio |-> Undefined, constructed |-> 0]

\* initializeTransport: the two transporter fields it leaves behind, given
\* the mode, the validated transport option and the identity a newly
\* constructed transport object gets.
InitializeTransport(mode, customTransport, freshId) ==
    IF mode = Str("streamable-http")
    THEN IF Truthy(customTransport) /\ InstanceOf(customTransport, HttpClass)
         THEN [http |-> customTransport, stdio |-> Undefined, constructed |-> 0]
         ELSE [http |-> TransportObj(HttpClass, freshId, "undefined"),
               stdio |-> Undefined, constructed |-> 1]
    ELSE IF Truthy(customTransport) /\ InstanceOf(customTransport, StdioClass)
         THEN [http |-> Undefined, stdio |-> customTransport, constructed |-> 0]
         ELSE [http |-> Undefined,
               stdio |-> TransportObj(StdioClass, freshId, "undefined"),
               constructed |-> 1]

\* new c(p) for a subclass c, up to the call of the registration hook: super(params),
\* the schema's parse (which throws on failure), the five field assignments
\* and initializeTransport.
Constructor(s, c, p) ==
    /\ pc[s] = "unconstructed"
    /\ cls' = [cls EXCEPT ![s] = c]
    /\ params' = [params EXCEPT ![s] = p]
    /\ LET validatedParams == BaseMCPConfigSchema(p)
           tr == InitializeTransport(validatedParams.data.transportMode,
                                     validatedParams.data.transport, nextId)
       IN IF ~validatedParams.success
          THEN /\ pc' = [pc EXCEPT ![s] = "threw"]
               /\ thrown' = [thrown EXCEPT ![s] = "ZodError"]
               /\ UNCHANGED <<configVars, transportVars, nextId>>
          ELSE /\ name' = [name EXCEPT ![s] = validatedParams.data.name]
               /\ version' = [version EXCEPT ![s] = validatedParams.data.version]
               /\ host' = [host EXCEPT ![s] = validatedParams.data.host]
               /\ port' = [port EXCEPT ![s] = validatedParams.data.port]
               /\ transportMode' =
                      [transportMode EXCEPT ![s] = validatedParams.data.transportMode]
               /\ httpTransporter' = [httpTransporter EXCEPT ![s] = tr.http]
               /\ stdioTransporter' = [stdioTransporter EXCEPT ![s] = tr.stdio]
               /\ nextId' = nextId + tr.constructed
               /\ pc' = [pc EXCEPT ![s] = "hook"]
               /\ UNCHANGED thrown
    /\ UNCHANGED <<registryVars, engine, started, console, result, hookCalls,
                   connectCalls, call>>
    /\ UNCHANGED <<pending, appVars>>

\* ------------------------------------------------------------- registration
\* The protocol engine's registerTool (the inherited McpServer method the
\* helper calls): a name that is already registered makes it throw,
\* otherwise the descriptor is appended.
McpRegisterTool(reg, d) ==
    IF \E i \in 1..Len(reg.tools) : reg.tools[i].name = d.name
    THEN [reg EXCEPT !.thrown = "Tool " \o d.name \o " is already registered"]
    ELSE [reg EXCEPT !.tools = Append(@, d)]

\* The protocol engine's registerResource called with a string uri: the
\* engine keys its resources by uri, not by name.
McpRegisterResource(reg, d) ==
    IF \E i \in 1..Len(reg.resources) : reg.resources[i].uri = d.uri
    THEN [reg EXCEPT !.thrown = "Resource " \o d.uri \o " is already registered"]
    ELSE [reg EXCEPT !.resources = Append(@, d)]

\* Faulty variant: a tool registered under a name in use replaces the tool
\* that holds the name.
RegisterToolHelper_Overwrites(reg, d) ==
    IF \E i \in 1..Len(reg.tools) : reg.tools[i].name = d.name
    THEN [reg EXCEPT !.tools =
              [i \in 1..Len(reg.tools) |->
                   IF reg.tools[i].name = d.name THEN d ELSE reg.tools[i]]]
    ELSE [reg EXCEPT !.tools = Append(@, d)]

\* registerToolHelper: this.registerTool(name, config, handler)
RegisterToolHelper(reg, d) == McpRegisterTool(reg, d)

\* Faulty variant: a resource registered under a URI in use replaces the
\* resource that holds the URI.
RegisterResourceHelper_Replaces(reg, d) ==
    IF \E i \in 1..Len(reg.resources) : reg.resources[i].uri = d.uri
    THEN [reg EXCEPT !.resources =
              [i \in 1..Len(reg.resources) |->
                   IF reg.resources[i].uri = d.uri THEN d ELSE reg.resources[i]]]
    ELSE [reg EXCEPT !.resources = Append(@, d)]

\* Faulty variant: resources are keyed by name, as tools are.
RegisterResourceHelper_ByName(reg, d) ==
    IF \E i \in 1..Len(reg.resources) : reg.resources[i].name = d.name
    THEN [reg EXCEPT !.thrown = "Resource " \o d.name \o " is already registered"]
    ELSE [reg EXCEPT !.resources = Append(@, d)]

\* registerResourceHelper: this.registerResource(name, uri, config, handler)
RegisterResourceHelper(reg, d) == McpRegisterResource(reg, d)

\* A tool registration: name, description, output schema (the type each key
\* of the structured content must have) and the handler method.
Tool(n, d, out, h) ==
    [kind |-> "tool", name |-> n, uri |-> "", description |-> d,
     outputSchema |-> out, handler |-> h]
Resource(n, u, d, h) ==
    [kind |-> "resource", name |-> n, uri |-> u, description |-> d, handler |-> h]

\* outputSchema: { text: z.string() }
TextSchema == [text |-> "string"]

\* The registrations of GreetingsMCP.registerComponents, in program order.
GreetingsComponents ==
    <<Tool("greet", "Greet the user", TextSchema, "greet"),
      Resource("notice.txt",
               "https://shivajichk.ac.in/pdf/1_International_Yoga_Day_Celebration_ATR.pdf",
               "A sample notice file", "getNoticeContent"),
      Tool("regiter_custom_greeting",
           "This tool will register new custom greeting message",
           TextSchema, "registerCustomGreeting")>>

\* outputSchema of calculate: { result: z.number(), expression: z.string() }
CalculateSchema == [result |-> "number", expression |-> "string"]
\* outputSchema of advanced_math: { result: z.number() }
ResultSchema == [result |-> "number"]

\* The registrations of CalculatorMCP.registerComponents, in program order.
CalculatorComponents ==
    <<Tool("calculate", "Perform basic arithmetic calculations", CalculateSchema,
           "calculate"),
      Tool("advanced_math", "Perform advanced mathematical operations",
           ResultSchema, "advancedMath")>>

\* registerComponents of a subclass.
Components(c) ==
    IF c = "CalculatorMCP" THEN CalculatorComponents ELSE GreetingsComponents

\* The registration registerCustomGreeting performs when it is invoked.
CustomGreetTool ==
    Tool("custom_greet", "Greet the user with a custom message", TextSchema,
         "customGreet")

\* Run a list of registrations in order; the first one that throws ends it.
RECURSIVE RegisterAll(_, _)
RegisterAll(reg, list) ==
    IF list = <<>> \/ reg.thrown /= NoError THEN reg
    ELSE RegisterAll(IF Head(list).kind = "tool"
                     THEN RegisterToolHelper(reg, Head(list))
                     ELSE RegisterResourceHelper(reg, Head(list)),
                     Tail(list))

Registry(s) == [tools |-> tools[s], resources |-> resources[s], thrown |-> NoError]

\* The constructor's last statement: this.registerComponents().  An error
\* thrown by a registration leaves the constructor by that error.
RegisterComponents(s) ==
    /\ pc[s] = "hook"
    /\ hookCalls' = [hookCalls EXCEPT ![s] = @ + 1]
    /\ LET reg == RegisterAll(Registry(s), Components(cls[s]))
       IN /\ tools' = [tools EXCEPT ![s] = reg.tools]
          /\ resources' = [resources EXCEPT ![s] = reg.resources]
          /\ thrown' = [thrown EXCEPT ![s] = reg.thrown]
          /\ pc' = [pc EXCEPT ![s] = IF reg.thrown = NoError THEN "returned" ELSE "threw"]
    /\ UNCHANGED <<cls, params, configVars, transportVars, engine, started,
                   nextId, console, result, connectCalls, call>>
    /\ UNCHANGED <<pending, appVars>>

\* ---------------------------------------------------------------- accessors
GetHTTPTransporter(s) == httpTransporter[s]
GetStdioTransporter(s) == stdioTransporter[s]

\* Faulty variant: when the handle of the declared mode is absent, the handle
\* of the other mode is returned if the instance holds one.
GetTransporter_OtherVariant(s) ==
    LET declared == IF transportMode[s] = Str("streamable-http")
                    THEN httpTransporter[s] ELSE stdioTransporter[s]
        other == IF transportMode[s] = Str("streamable-http")
                 THEN stdioTransporter[s] ELSE httpTransporter[s]
    IN IF Truthy(declared) THEN [thrown |-> NoError, value |-> declared]
       ELSE IF Truthy(other) THEN [thrown |-> NoError, value |-> other]
       ELSE [thrown |-> IF transportMode[s] = Str("streamable-http")
                        THEN "HTTP transporter is not initialized"
                        ELSE "Stdio transporter is not initialized",
             value |-> Undefined]

\* getTransporter: the handle of the declared mode, or the error it throws.
GetTransporter(s) ==
    IF transportMode[s] = Str("streamable-http")
    THEN IF ~Truthy(httpTransporter[s])
         THEN [thrown |-> "HTTP transporter is not initialized", value |-> Undefined]
         ELSE [thrown |-> NoError, value |-> httpTransporter[s]]
    ELSE IF ~Truthy(stdioTransporter[s])
         THEN [thrown |-> "Stdio transporter is not initialized", value |-> Undefined]
         ELSE [thrown |-> NoError, value |-> stdioTransporter[s]]

\* Faulty variant: host and port are reported once the engine is bound.
GetMetadata_WhenConnected(s) ==
    [name |-> name[s], version |-> version[s], transportMode |-> transportMode[s],
     host |-> IF Truthy(engine[s]) THEN host[s] ELSE Undefined,
     port |-> IF Truthy(engine[s]) THEN port[s] ELSE Undefined]

\* Faulty variant: the host and port are read from the raw parameters.
GetMetadata_Raw(s) ==
    [name |-> name[s], version |-> version[s], transportMode |-> transportMode[s],
     host |-> params[s].host, port |-> params[s].port]

GetMetadata(s) ==
    [name |-> name[s], version |-> version[s], transportMode |-> transportMode[s],
     host |-> host[s], port |-> port[s]]

\* ------------------------------------------------------------ connect, start
\* Faulty variant: a connect() whose transport was started before leaves the
\* engine unbound.
ConnectEffect_UnbindsOnFailure(s) ==
    LET transporter == GetTransporter(s)
    IN IF transporter.thrown /= NoError
       THEN /\ thrown' = [thrown EXCEPT ![s] = transporter.thrown]
            /\ UNCHANGED <<engine, started, connectCalls>>
       ELSE /\ connectCalls' = [connectCalls EXCEPT ![s] = @ + 1]
            /\ IF transporter.value.id \in started
               THEN /\ thrown' = [thrown EXCEPT ![s] = "Transport already started"]
                    /\ engine' = [engine EXCEPT ![s] = Undefined]
                    /\ UNCHANGED started
               ELSE /\ thrown' = [thrown EXCEPT ![s] = NoError]
                    /\ engine' = [engine EXCEPT ![s] = transporter.value]
                    /\ started' = started \cup {transporter.value.id}

\* Faulty variant: connect() binds whichever transporter the instance holds,
\* the one of the other mode when the one of the declared mode is absent.
ConnectEffect_AnyHandle(s) ==
    LET held == IF Truthy(GetTransporter(s).value) THEN GetTransporter(s).value
                ELSE IF Truthy(httpTransporter[s]) THEN httpTransporter[s]
                ELSE stdioTransporter[s]
    IN IF ~Truthy(held)
       THEN /\ thrown' = [thrown EXCEPT ![s] = GetTransporter(s).thrown]
            /\ UNCHANGED <<engine, started, connectCalls>>
       ELSE /\ connectCalls' = [connectCalls EXCEPT ![s] = @ + 1]
            /\ engine' = [engine EXCEPT ![s] = held]
            /\ thrown' = [thrown EXCEPT ![s] = NoError]
            /\ started' = started \cup {held.id}

\* The effect of connect() on the engine: getTransporter, then
\* super.connect(transporter), which binds the transport and starts it; a
\* transport object that was started before throws from its start().
ConnectEffect(s) ==
    LET transporter == GetTransporter(s)
    IN IF transporter.thrown /= NoError
       THEN /\ thrown' = [thrown EXCEPT ![s] = transporter.thrown]
            /\ UNCHANGED <<engine, started, connectCalls>>
       ELSE /\ connectCalls' = [connectCalls EXCEPT ![s] = @ + 1]
            /\ engine' = [engine EXCEPT ![s] = transporter.value]
            /\ IF transporter.value.id \in started
               THEN /\ thrown' = [thrown EXCEPT ![s] = "Transport already started"]
                    /\ UNCHANGED started
               ELSE /\ thrown' = [thrown EXCEPT ![s] = NoError]
                    /\ started' = started \cup {transporter.value.id}

\* A call of connect(): it runs up to the await of super.connect and leaves
\* the returned promise pending.
Connect(s) ==
    /\ pc[s] = "returned" /\ call[s] = "idle"
    /\ connectCalls[s] < MaxConnects
    /\ ConnectEffect(s)
    /\ call' = [call EXCEPT ![s] = "connect:awaiting"]
    /\ UNCHANGED <<pc, cls, params, configVars, transportVars, registryVars, nextId,
                   console, result, hookCalls>>
    /\ UNCHANGED <<pending, appVars>>

\* The promise of the connect() in flight settles: a direct call is over, a
\* start() that awaits it resumes.
ConnectSettles(s) ==
    /\ call[s] \in {"connect:awaiting", "start:awaiting"}
    /\ call' = [call EXCEPT ![s] = IF call[s] = "connect:awaiting"
                                    THEN "idle" ELSE "start:resumed"]
    /\ UNCHANGED <<pc, cls, params, configVars, transportVars, registryVars, engine,
                   started, nextId, console, thrown, result, hookCalls,
                   connectCalls>>
    /\ UNCHANGED <<pending, appVars>>

\* A call of getTransporter() by the owner of the instance.
GetTransporterCall(s) ==
    /\ pc[s] = "returned" /\ call[s] = "idle"
    /\ thrown' = [thrown EXCEPT ![s] = GetTransporter(s).thrown]
    /\ UNCHANGED <<pc, cls, params, configVars, transportVars, registryVars, engine,
                   started, nextId, console, result, hookCalls, connectCalls,
                   call>>
    /\ UNCHANGED <<pending, appVars>>

\* String(n) for a number of the model (whole + frac/10, whole the floor).
Digits == <<"0", "1", "2", "3", "4", "5", "6", "7", "8", "9">>
RECURSIVE NatToString(_)
NatToString(n) ==
    IF n < 10 THEN Digits[n + 1] ELSE NatToString(n \div 10) \o Digits[(n % 10) + 1]
NumberToString(v) ==
    IF v.whole >= 0
    THEN IF v.frac = 0 THEN NatToString(v.whole)
         ELSE NatToString(v.whole) \o "." \o Digits[v.frac + 1]
    ELSE IF v.frac = 0 THEN "-" \o NatToString(0 - v.whole)
         ELSE "-" \o NatToString((0 - v.whole) - 1) \o "." \o Digits[(10 - v.frac) + 1]

\* Faulty variant: only an HTTP server announces itself.
StartMessage_HttpOnly(s) ==
    IF transportMode[s] = Str("streamable-http") /\ Truthy(httpTransporter[s])
    THEN <<"Starting " \o name[s].v \o " v" \o version[s].v \o " on http://"
           \o host[s].v \o ":" \o NumberToString(port[s])>>
    ELSE <<>>

\* The line start() logs, if any.
StartMessage(s) ==
    IF transportMode[s] = Str("streamable-http") /\ Truthy(httpTransporter[s])
    THEN <<"Starting " \o name[s].v \o " v" \o version[s].v \o " on http://"
           \o host[s].v \o ":" \o NumberToString(port[s])>>
    ELSE IF transportMode[s] = Str("stdio")
         THEN <<"Starting " \o name[s].v \o " v" \o version[s].v \o " in stdio mode">>
         ELSE <<>>

\* start(), first part: the branch on the mode and its console.log.
StartLog(s) ==
    /\ pc[s] = "returned" /\ call[s] = "idle"
    /\ connectCalls[s] < MaxConnects
    /\ Len(console) < MaxConsole
    /\ console' = console \o StartMessage(s)
    /\ call' = [call EXCEPT ![s] = "start:logged"]
    /\ UNCHANGED <<pc, cls, params, configVars, transportVars, registryVars, engine,
                   started, nextId, thrown, result, hookCalls, connectCalls>>
    /\ UNCHANGED <<pending, appVars>>

\* start(), second part: this.connect() is called and awaited.
StartConnect(s) ==
    /\ call[s] = "start:logged"
    /\ ConnectEffect(s)
    /\ call' = [call EXCEPT ![s] = "start:awaiting"]
    /\ UNCHANGED <<pc, cls, params, configVars, transportVars, registryVars, nextId,
                   console, result, hookCalls>>
    /\ UNCHANGED <<pending, appVars>>

\* start(), end: the awaited connect() has settled and start() returns.
StartReturns(s) ==
    /\ call[s] = "start:resumed"
    /\ call' = [call EXCEPT ![s] = "idle"]
    /\ UNCHANGED <<pc, cls, params, configVars, transportVars, registryVars, engine,
                   started, nextId, console, thrown, result, hookCalls,
                   connectCalls>>
    /\ UNCHANGED <<pending, appVars>>

\* Faulty variant: start() constructs a new transport for the mode before
\* it connects.
Start_Reselects(s) ==
    \/ StartLog(s)
    \/ /\ call[s] = "start:logged"
       /\ IF transportMode[s] = Str("streamable-http")
          THEN /\ httpTransporter' = [httpTransporter EXCEPT ![s] =
                                         TransportObj(HttpClass, nextId, "undefined")]
               /\ UNCHANGED stdioTransporter
          ELSE /\ stdioTransporter' = [stdioTransporter EXCEPT ![s] =
                                          TransportObj(StdioClass, nextId, "undefined")]
               /\ UNCHANGED httpTransporter
       /\ nextId' = nextId + 1
       /\ ConnectEffect(s)
       /\ call' = [call EXCEPT ![s] = "start:awaiting"]
       /\ UNCHANGED <<pc, cls, params, configVars, registryVars, console, result,
                      hookCalls, pending, appVars>>
    \/ StartReturns(s)

\* start(): its three parts in program order.
Start(s) == StartLog(s) \/ StartConnect(s) \/ StartReturns(s)

\* ---------------------------------------------------------- tool invocation
\* Arguments a caller sends to the greetings tools.
GreetNames == {"A", "Ada"}
GreetMessages == {"Welcome back."}

\* A CallToolResult with one text entry and { text } as structured content.
ToolResult(text) ==
    [isError |-> FALSE, text |-> text, structuredContent |-> [text |-> Str(text)]]
\* What the caller receives when the engine reports a failed invocation.
ErrorResult(text) == [isError |-> TRUE, text |-> text, structuredContent |-> Undefined]

\* A handler's outcome: the value it returned or the error it threw.
Returned(r) == [thrown |-> NoError, value |-> r]
Threw(e) == [thrown |-> e, value |-> NoResult]

\* The structured content has every key of the schema, of the schema's type.
MatchesSchema(content, schema) ==
    \A k \in DOMAIN schema : k \in DOMAIN content /\ content[k].t = schema[k]

\* The engine's tools/call for a registered tool d: arguments that fail the
\* input schema are refused, an error thrown by the handler becomes an error
\* result, and the structured content of a result that is not an error is
\* checked against the tool's output schema.
McpCallTool(d, argsOk, outcome) ==
    IF ~argsOk THEN ErrorResult("Invalid arguments for tool " \o d.name)
    ELSE IF outcome.thrown /= NoError THEN ErrorResult(outcome.thrown)
    ELSE IF outcome.value.isError THEN outcome.value
    ELSE IF outcome.value.structuredContent = Undefined
    THEN ErrorResult("Tool " \o d.name
                     \o " has an output schema but no structured content was provided")
    ELSE IF ~MatchesSchema(outcome.value.structuredContent, d.outputSchema)
    THEN ErrorResult("Invalid structured content for tool " \o d.name)
    ELSE outcome.value

\* Faulty variant: the greeting of the earlier GreetingsMCP class, which does
\* not name the server.
Greet_Legacy(s, args) ==
    ToolResult("Hello, " \o args.name \o "! Welcome to version " \o version[s].v \o ".")

\* GreetingsMCP.greet
Greet(s, args) ==
    ToolResult("Hello, " \o args.name \o "! Welcome to " \o name[s].v
               \o " version " \o version[s].v \o ".")

\* GreetingsMCP.customGreet
CustomGreet(args) == ToolResult("Hello, " \o args.name \o "! " \o args.message)

HasTool(s, n) == \E i \in 1..Len(tools[s]) : tools[s][i].name = n
ToolNamed(s, n) == tools[s][CHOOSE i \in 1..Len(tools[s]) : tools[s][i].name = n]

\* The engine dispatches requests of a transport it is bound to; no request
\* is dispatched inside the synchronous part of start().
Dispatching(s) == pc[s] = "returned" /\ Truthy(engine[s]) /\ call[s] /= "start:logged"

\* tools/call greet: the engine checks the arguments against the input
\* schema (name: 2..100 characters) and then runs the handler.
InvokeGreet(s, n) ==
    /\ Dispatching(s) /\ HasTool(s, "greet")
    /\ result' = [result EXCEPT ![s] =
                    McpCallTool(ToolNamed(s, "greet"), ZString(Str(n), 2, 100),
                                Returned(Greet(s, [name |-> n])))]
    /\ UNCHANGED <<pc, cls, params, configVars, transportVars, registryVars, engine,
                   started, nextId, console, thrown, hookCalls, connectCalls,
                   call>>
    /\ UNCHANGED <<pending, appVars>>

\* Faulty variant: the error of the handler's registration is not caught by
\* the engine; it ends the connection and no result is produced.
InvokeRegisterCustomGreeting_Uncaught(s) ==
    /\ Dispatching(s) /\ HasTool(s, "regiter_custom_greeting")
    /\ LET reg == RegisterToolHelper(Registry(s), CustomGreetTool)
       IN /\ tools' = [tools EXCEPT ![s] = reg.tools]
          /\ IF reg.thrown = NoError
             THEN /\ result' = [result EXCEPT ![s] =
                        ToolResult("Custom greeting registered successfully!")]
                  /\ UNCHANGED <<engine, thrown>>
             ELSE /\ thrown' = [thrown EXCEPT ![s] = reg.thrown]
                  /\ engine' = [engine EXCEPT ![s] = Undefined]
                  /\ UNCHANGED result
    /\ UNCHANGED <<pc, cls, params, configVars, transportVars, resources,
                   started, nextId, console, hookCalls, connectCalls, call>>
    /\ UNCHANGED <<pending, appVars>>

\* Faulty variant: the handler rebuilds the tool table around custom_greet
\* and loses the tools registered after greet.
InvokeRegisterCustomGreeting_Rebuilds(s) ==
    /\ Dispatching(s) /\ HasTool(s, "regiter_custom_greeting")
    /\ tools' = [tools EXCEPT ![s] = <<tools[s][1], CustomGreetTool>>]
    /\ result' = [result EXCEPT ![s] =
                    ToolResult("Custom greeting registered successfully!")]
    /\ UNCHANGED <<pc, cls, params, configVars, transportVars, resources, engine,
                   started, nextId, console, thrown, hookCalls, connectCalls,
                   call>>
    /\ UNCHANGED <<pending, appVars>>

\* tools/call regiter_custom_greeting: the handler registers custom_greet;
\* an error it throws is turned into an error result by the engine.
InvokeRegisterCustomGreeting(s) ==
    /\ Dispatching(s) /\ HasTool(s, "regiter_custom_greeting")
    /\ LET reg == RegisterToolHelper(Registry(s), CustomGreetTool)
       IN /\ tools' = [tools EXCEPT ![s] = reg.tools]
          /\ result' = [result EXCEPT ![s] =
                McpCallTool(ToolNamed(s, "regiter_custom_greeting"), TRUE,
                    IF reg.thrown = NoError
                    THEN Returned(ToolResult("Custom greeting registered successfully!"))
                    ELSE Threw(reg.thrown))]
    /\ UNCHANGED <<pc, cls, params, configVars, transportVars, resources, engine,
                   started, nextId, console, thrown, hookCalls, connectCalls,
                   call>>
    /\ UNCHANGED <<pending, appVars>>

\* tools/call custom_greet
InvokeCustomGreet(s, n, m) ==
    /\ Dispatching(s) /\ HasTool(s, "custom_greet")
    /\ result' = [result EXCEPT ![s] =
                    McpCallTool(ToolNamed(s, "custom_greet"), TRUE,
                                Returned(CustomGreet([name |-> n, message |-> m])))]
    /\ UNCHANGED <<pc, cls, params, configVars, transportVars, registryVars, engine,
                   started, nextId, console, thrown, hookCalls, connectCalls,
                   call>>
    /\ UNCHANGED <<pending, appVars>>

\* ---------------------------------------------------------- resource reading
NoticeUri == "https://shivajichk.ac.in/pdf/1_International_Yoga_Day_Celebration_ATR.pdf"
HasResource(s, u) == \E i \in 1..Len(resources[s]) : resources[s][i].uri = u
ResourceAt(s, u) == resources[s][CHOOSE i \in 1..Len(resources[s]) : resources[s][i].uri = u]

\* What extractPdfTextFromFile settles with: the text of the file, or the
\* error of a file that cannot be read.
ReadOutcomes == {"resolved", "rejected"}

\* What the caller of resources/read receives once the handler has settled:
\* the contents the handler resolved with, or the error it rejected with.
McpReadResource(outcome) ==
    IF outcome = "resolved"
    THEN [isError |-> FALSE, text |-> "text of notice.pdf", structuredContent |-> Undefined]
    ELSE ErrorResult("ENOENT: no such file or directory")

\* A resources/read whose handler's promise is handed on without being
\* awaited: the caller receives the pending promise at once.
ReadResourceStart_NotAwaited(s) ==
    /\ Dispatching(s) /\ HasResource(s, NoticeUri)
    /\ ResourceAt(s, NoticeUri).handler = "getNoticeContent"
    /\ pending[s] = "none"
    /\ pending' = [pending EXCEPT ![s] = ResourceAt(s, NoticeUri).handler]
    /\ result' = [result EXCEPT ![s] =
                      [isError |-> FALSE, text |-> "[object Promise]",
                       structuredContent |-> Undefined]]
    /\ UNCHANGED <<pc, cls, params, configVars, transportVars, registryVars, engine,
                   started, nextId, console, thrown, hookCalls,
                   connectCalls, call, appVars>>

\* resources/read of the notice: the engine calls getNoticeContent, which
\* runs up to its await of extractPdfTextFromFile and returns a pending
\* promise the engine awaits.
ReadResourceStart(s) ==
    /\ Dispatching(s) /\ HasResource(s, NoticeUri)
    /\ ResourceAt(s, NoticeUri).handler = "getNoticeContent"
    /\ pending[s] = "none"
    /\ pending' = [pending EXCEPT ![s] = ResourceAt(s, NoticeUri).handler]
    /\ UNCHANGED <<pc, cls, params, configVars, transportVars, registryVars, engine,
                   started, nextId, console, thrown, result, hookCalls,
                   connectCalls, call, appVars>>

\* The file read settles, getNoticeContent returns or throws, and the engine
\* answers the request.
ReadResourceSettles(s, outcome) ==
    /\ pending[s] = "getNoticeContent"
    /\ pending' = [pending EXCEPT ![s] = "none"]
    /\ result' = [result EXCEPT ![s] = McpReadResource(outcome)]
    /\ UNCHANGED <<pc, cls, params, configVars, transportVars, registryVars, engine,
                   started, nextId, console, thrown, hookCalls, connectCalls,
                   call, appVars>>

\* ---------------------------------------------------------------- calculator
\* Arithmetic on the numbers of the model, in tenths.
Tenths(v) == (v.whole * 10) + v.frac
FromTenths(n) == Num(n \div 10, n % 10)
Plus(a, b) == FromTenths(Tenths(a) + Tenths(b))
Minus(a, b) == FromTenths(Tenths(a) - Tenths(b))
\* The arguments of the model keep products and quotients within one decimal.
Times(a, b) == FromTenths((Tenths(a) * Tenths(b)) \div 10)
Quotient(a, b) == FromTenths((Tenths(a) * 10) \div Tenths(b))

\* The result calculate returns for a computed value.
Computed(a, sign, b, r) ==
    LET expression == NumberToString(a) \o sign \o NumberToString(b)
                      \o " = " \o NumberToString(r)
    IN [isError |-> FALSE, text |-> expression,
        structuredContent |-> [result |-> r, expression |-> Str(expression)]]

\* A result whose text is "Error: <e>" and whose structured content is
\* { error: <e> }.
ErrorPayload(e) ==
    [isError |-> FALSE, text |-> "Error: " \o e,
     structuredContent |-> [error |-> Str(e)]]

\* CalculatorMCP.calculate
Calculate(args) ==
    CASE args.operation = "add" ->
             Computed(args.a, " + ", args.b, Plus(args.a, args.b))
      [] args.operation = "subtract" ->
             Computed(args.a, " - ", args.b, Minus(args.a, args.b))
      [] args.operation = "multiply" ->
             Computed(args.a, " × ", args.b, Times(args.a, args.b))
      [] args.operation = "divide" ->
             IF args.b = Num(0, 0) THEN ErrorPayload("Division by zero")
             ELSE Computed(args.a, " ÷ ", args.b, Quotient(args.a, args.b))
      [] OTHER -> ErrorPayload("Unknown operation")

\* Arguments a caller sends to calculate.
Operations == {"add", "subtract", "multiply", "divide", "modulo"}
OperandsA == {Num(-10, 0), Num(2, 5)}
OperandsB == {Num(0, 0), Num(5, 0)}

\* tools/call calculate: the input schema admits the four operations.
InvokeCalculate(s, op, a, b) ==
    /\ Dispatching(s) /\ HasTool(s, "calculate")
    /\ result' = [result EXCEPT ![s] =
                    McpCallTool(ToolNamed(s, "calculate"),
                                op \in {"add", "subtract", "multiply", "divide"},
                                Returned(Calculate([operation |-> op, a |-> a, b |-> b])))]
    /\ UNCHANGED <<pc, cls, params, configVars, transportVars, registryVars, engine,
                   started, nextId, console, thrown, hookCalls, connectCalls,
                   call>>
    /\ UNCHANGED <<pending, appVars>>

\* ------------------------------------------------- helper calls of a subclass
\* Registrations a subclass method may ask for after construction.
\* Whether a handler method is declared async.
HandlerKind(h) ==
    IF h \in {"getNoticeContent", "customGreet", "getOther", "fetchFarewell"}
    THEN "async" ELSE "sync"

\* The handler parameter of registerToolHelper is a ToolCallback, which
\* returns a CallToolResult or a promise of one.
ToolCallbackAccepts(kind) == kind \in {"sync", "async"}

\* The handler parameter of registerResourceHelper is () => Promise<any>.
ResourceHandlerAccepts(kind) == kind = "async"

ExtraTools ==
    {Tool("greet", "Another tool", TextSchema, "sayFarewell"),
     Tool("farewell", "Another tool", TextSchema, "fetchFarewell")}
ExtraResources ==
    {Resource(n, u, "Another resource", "getOther") :
        n \in {"notice.txt", "other.txt"},
        u \in {"https://shivajichk.ac.in/pdf/1_International_Yoga_Day_Celebration_ATR.pdf",
               "file:///other.txt"}}
    \cup {Resource("sync.txt", "file:///sync.txt", "Another resource", "readSync")}

\* A subclass method calls registerToolHelper; the error is the caller's.
CallRegisterToolHelper(s, d) ==
    /\ pc[s] = "returned" /\ call[s] /= "start:logged"
    /\ ToolCallbackAccepts(HandlerKind(d.handler))
    /\ LET reg == RegisterToolHelper(Registry(s), d)
       IN /\ tools' = [tools EXCEPT ![s] = reg.tools]
          /\ thrown' = [thrown EXCEPT ![s] = reg.thrown]
    /\ UNCHANGED <<pc, cls, params, configVars, transportVars, resources, engine,
                   started, nextId, console, result, hookCalls, connectCalls,
                   call>>
    /\ UNCHANGED <<pending, appVars>>

\* A subclass method calls registerResourceHelper.  The engine announces the
\* resources capability with the first resource and cannot announce it once
\* it is bound to a transport, so the first resource of an instance is
\* registered before connect().
CallRegisterResourceHelper(s, d) ==
    /\ pc[s] = "returned" /\ call[s] /= "start:logged"
    /\ Len(resources[s]) > 0 \/ ~Truthy(engine[s])
    /\ ResourceHandlerAccepts(HandlerKind(d.handler))
    /\ LET reg == RegisterResourceHelper(Registry(s), d)
       IN /\ resources' = [resources EXCEPT ![s] = reg.resources]
          /\ thrown' = [thrown EXCEPT ![s] = reg.thrown]
    /\ UNCHANGED <<pc, cls, params, configVars, transportVars, tools, engine,
                   started, nextId, console, result, hookCalls, connectCalls,
                   call>>
    /\ UNCHANGED <<pending, appVars>>

\* ------------------------------------------------------------ specification
Next ==
    \E s \in Servers :
        \/ pc[s] = "unconstructed" /\ \E p \in RawConfigs : Constructor(s, "GreetingsMCP", p)
        \/ RegisterComponents(s)
        \/ Connect(s)
        \/ ConnectSettles(s)
        \/ GetTransporterCall(s)
        \/ Start(s)
        \/ \E n \in GreetNames : InvokeGreet(s, n)
        \/ InvokeRegisterCustomGreeting(s)
        \/ \E n \in GreetNames, m \in GreetMessages : InvokeCustomGreet(s, n, m)

Spec == Init /\ [][Next]_vars

\* -------------------------------------------- specification of one instance
\* The transport methods of an instance taken one by one: the instance is
\* constructed, and its fields are drawn from bounded sets that include an
\* absent transporter for the declared mode, the case the accessors guard
\* against.
InstanceHttp == {Undefined, TransportObj(HttpClass, 1, "function")}
InstanceStdio == {Undefined, TransportObj(StdioClass, 2, "undefined")}
InstancePorts == {Num(3000, 0), Num(80, 5)}
EmptyRegistry == [tools |-> <<>>, resources |-> <<>>, thrown |-> NoError]

\* A constructed instance of class c whose transport fields are free.
Constructed_Instance(classes, modes, ports, https, stdios) ==
    /\ pc = [s \in Servers |-> "returned"]
    /\ cls \in [Servers -> classes]
    /\ params = [s \in Servers |-> NoParams]
    /\ name = [s \in Servers |-> Str("Db")]
    /\ version = [s \in Servers |-> Str("1.0")]
    /\ host = [s \in Servers |-> DefaultHost]
    /\ port \in [Servers -> ports]
    /\ transportMode \in [Servers -> modes]
    /\ httpTransporter \in [Servers -> https]
    /\ stdioTransporter \in [Servers -> stdios]
    /\ tools = [s \in Servers |-> RegisterAll(EmptyRegistry, Components(cls[s])).tools]
    /\ resources = [s \in Servers |->
                       RegisterAll(EmptyRegistry, Components(cls[s])).resources]
    /\ engine = [s \in Servers |-> Undefined]
    /\ started = {}
    /\ nextId = Cardinality(CallerTransports) + 1
    /\ console = <<>>
    /\ thrown = [s \in Servers |-> NoError]
    /\ result = [s \in Servers |-> NoResult]
    /\ hookCalls = [s \in Servers |-> 1]
    /\ connectCalls = [s \in Servers |-> 0]
    /\ call = [s \in Servers |-> "idle"]
    /\ pending = [s \in Servers |-> "none"]
    /\ NoApplication

InitInstance ==
    Constructed_Instance({"GreetingsMCP", "CalculatorMCP"},
                         {Str("stdio"), Str("streamable-http")},
                         InstancePorts, InstanceHttp, InstanceStdio)

NextInstance ==
    \E s \in Servers :
        \/ Connect(s)
        \/ ConnectSettles(s)
        \/ GetTransporterCall(s)
        \/ Start(s)

SpecInstance == InitInstance /\ [][NextInstance]_vars

\* ------------------------------------------ specification of two instances
\* Two servers constructed in one process, as the example applications do,
\* each with the transport option absent or set to an object of the caller.
Fleet == {"first", "second"}
FleetClass(s) == IF s = "first" THEN "GreetingsMCP" ELSE "CalculatorMCP"
FleetConfigs ==
    [name : {Str("Db")}, version : {Str("1.0")}, host : {Undefined},
     port : {Undefined}, transportMode : {Str("stdio"), Str("streamable-http")},
     transport : {Undefined, TransportObj(HttpClass, 1, "function"),
                  TransportObj(StdioClass, 2, "undefined")}]

InitFleet ==
    /\ pc = [s \in Fleet |-> "unconstructed"]
    /\ cls = [s \in Fleet |-> "BaseMCPServer"]
    /\ params = [s \in Fleet |-> NoParams]
    /\ name = [s \in Fleet |-> Undefined]
    /\ version = [s \in Fleet |-> Undefined]
    /\ host = [s \in Fleet |-> Undefined]
    /\ port = [s \in Fleet |-> Undefined]
    /\ transportMode = [s \in Fleet |-> Undefined]
    /\ httpTransporter = [s \in Fleet |-> Undefined]
    /\ stdioTransporter = [s \in Fleet |-> Undefined]
    /\ tools = [s \in Fleet |-> <<>>]
    /\ resources = [s \in Fleet |-> <<>>]
    /\ engine = [s \in Fleet |-> Undefined]
    /\ started = {}
    /\ nextId = Cardinality(CallerTransports) + 1
    /\ console = <<>>
    /\ thrown = [s \in Fleet |-> NoError]
    /\ result = [s \in Fleet |-> NoResult]
    /\ hookCalls = [s \in Fleet |-> 0]
    /\ connectCalls = [s \in Fleet |-> 0]
    /\ call = [s \in Fleet |-> "idle"]
    /\ pending = [s \in Fleet |-> "none"]
    /\ NoApplication

NextFleet ==
    \E s \in Fleet :
        \/ \E p \in FleetConfigs : Constructor(s, FleetClass(s), p)
        \/ RegisterComponents(s)
        \/ Connect(s)
        \/ ConnectSettles(s)

SpecFleet == InitFleet /\ [][NextFleet]_vars

\* ------------------------------------------------------ the HTTP application
\* The configuration the application constructs its server with; the mode is
\* also drawn as stdio, for which the instance has no HTTP transporter.
AppConfigs ==
    [name : {Str("Greetings MCP")}, version : {Str("1.0.0")},
     host : {Str("localhost")}, port : {Num(3000, 0)},
     transportMode : {Str("streamable-http"), Str("stdio")},
     transport : {Undefined}]

\* The major versions of the web framework the route may run on: version 5
\* passes the rejection of an async route handler to the error middleware,
\* version 4 leaves it unhandled.
ExpressMajors == {4, 5}

\* Continuations of start() and connect() wait in the microtask queue; the
\* event loop runs them before it takes the next event.
MicrotasksPending(s) == call[s] \in {"connect:awaiting", "start:awaiting", "start:resumed"}

\* Faulty variant: the listener hands requests on as soon as it is bound.
Accepting_OnceBound == listener \in {"bound", "listening"}

\* The listener hands a request to the routes once its listening callback
\* has run.
Accepting == listener = "listening"

HeadersSent(req) == Len(req.answers) > 0

\* The router's final handler: it answers 404, or the error's status, when
\* nothing was sent, and destroys the socket when the headers are out.
FinalHandler(req, status) ==
    IF HeadersSent(req)
    THEN [req EXCEPT !.given = Append(@, "finalhandler"), !.socket = "destroyed",
                     !.phase = "done"]
    ELSE [req EXCEPT !.given = Append(@, "finalhandler"), !.phase = "done",
                     !.answers = Append(@, [by |-> "finalhandler", status |-> status,
                                            error |-> NoError])]

\* errorHandler(err, req, res, next): res.status(500).json({ error: message });
\* json() throws when the headers are out, and the router passes that error
\* on to the final handler.
ErrorHandler(req) ==
    LET given == [req EXCEPT !.given = Append(@, "errorHandler")]
    IN IF HeadersSent(req)
       THEN FinalHandler(given, 500)
       ELSE [given EXCEPT !.phase = "done",
                          !.answers = Append(@, [by |-> "errorHandler", status |-> 500,
                                                 error |-> req.error])]

\* startServer(): app.listen(PORT, callback) binds the port.
Listen(s) ==
    /\ pc[s] = "returned" /\ listener = "closed"
    /\ listener' = "bound"
    /\ UNCHANGED <<pc, cls, params, configVars, transportVars, registryVars, engine,
                   started, nextId, console, thrown, result, hookCalls,
                   connectCalls, call, pending, framework, requests>>

\* The listening callback: greetingMCP.start() runs up to its await of
\* connect(), which has run up to its await of super.connect; the promise
\* start() returns is dropped.
ListeningCallback(s) ==
    /\ listener = "bound"
    /\ listener' = "listening"
    /\ console' = console \o StartMessage(s)
    /\ ConnectEffect(s)
    /\ call' = [call EXCEPT ![s] = "start:awaiting"]
    /\ UNCHANGED <<pc, cls, params, configVars, transportVars, registryVars, nextId,
                   result, hookCalls, pending, framework, requests>>

\* POST /greet, up to the route's first await: without an HTTP transporter
\* the route answers 500 and returns; with one it calls handleRequest.
RequestArrives(s, r) ==
    /\ Accepting /\ ~MicrotasksPending(s)
    /\ requests[r].phase = "none"
    /\ \A q \in 1..(r - 1) : requests[q].phase /= "none"
    /\ LET httpTransporter_ == GetHTTPTransporter(s)
       IN requests' = [requests EXCEPT ![r] =
            IF ~Truthy(httpTransporter_)
            THEN [@ EXCEPT !.phase = "done", !.given = <<"route">>,
                           !.answers = <<[by |-> "route", status |-> 500,
                                          error |-> "HTTP transporter is not available"]>>]
            ELSE [@ EXCEPT !.phase = "delegated", !.given = <<"route", "transport">>,
                           !.bound = (engine[s] = httpTransporter_
                                           /\ call[s] = "idle")]]
    /\ UNCHANGED <<pc, cls, params, configVars, transportVars, registryVars, engine,
                   started, nextId, console, thrown, result, hookCalls,
                   connectCalls, call, pending, listener, framework>>

\* How a call of handleRequest ends: it resolves after the transport has
\* answered, or it rejects, before or after the response headers went out.
HandleOutcomes == {"answered", "threw", "threwAfterHeaders"}

\* The promise of handleRequest settles and the route resumes after line 28.
HandleRequestSettles(r, outcome) ==
    /\ requests[r].phase = "delegated"
    /\ requests' = [requests EXCEPT ![r] =
         LET answered == [@ EXCEPT !.answers =
                             Append(@, [by |-> "transport", status |-> 200,
                                        error |-> NoError])]
         IN IF outcome = "answered" THEN [answered EXCEPT !.phase = "resumed"]
            ELSE IF outcome = "threw"
                 THEN [@ EXCEPT !.phase = "rejected", !.error = "handleRequest failed"]
                 ELSE [answered EXCEPT !.phase = "rejected",
                                       !.error = "handleRequest failed"]]
    /\ UNCHANGED <<pc, cls, params, configVars, transportVars, registryVars, engine,
                   started, nextId, console, thrown, result, hookCalls,
                   connectCalls, call, pending, listener, framework>>

\* await next(): no later route matches POST /greet and the error middleware
\* is skipped when there is no error, so the final handler gets the request.
RouteCallsNext(r) ==
    /\ requests[r].phase = "resumed"
    /\ requests' = [requests EXCEPT ![r] = FinalHandler(@, 404)]
    /\ UNCHANGED <<pc, cls, params, configVars, transportVars, registryVars, engine,
                   started, nextId, console, thrown, result, hookCalls,
                   connectCalls, call, pending, listener, framework>>

\* The route's promise rejects with the error of handleRequest.
RouteRejects(r) ==
    /\ requests[r].phase = "rejected"
    /\ requests' = [requests EXCEPT ![r] =
         IF framework = 5 THEN ErrorHandler(@)
         ELSE [@ EXCEPT !.phase = "unhandledRejection"]]
    /\ UNCHANGED <<pc, cls, params, configVars, transportVars, registryVars, engine,
                   started, nextId, console, thrown, result, hookCalls,
                   connectCalls, call, pending, listener, framework>>

InitApp ==
    /\ pc = [s \in Servers |-> "unconstructed"]
    /\ cls = [s \in Servers |-> "BaseMCPServer"]
    /\ params = [s \in Servers |-> NoParams]
    /\ name = [s \in Servers |-> Undefined]
    /\ version = [s \in Servers |-> Undefined]
    /\ host = [s \in Servers |-> Undefined]
    /\ port = [s \in Servers |-> Undefined]
    /\ transportMode = [s \in Servers |-> Undefined]
    /\ httpTransporter = [s \in Servers |-> Undefined]
    /\ stdioTransporter = [s \in Servers |-> Undefined]
    /\ tools = [s \in Servers |-> <<>>]
    /\ resources = [s \in Servers |-> <<>>]
    /\ engine = [s \in Servers |-> Undefined]
    /\ started = {}
    /\ nextId = Cardinality(CallerTransports) + 1
    /\ console = <<>>
    /\ thrown = [s \in Servers |-> NoError]
    /\ result = [s \in Servers |-> NoResult]
    /\ hookCalls = [s \in Servers |-> 0]
    /\ connectCalls = [s \in Servers |-> 0]
    /\ call = [s \in Servers |-> "idle"]
    /\ pending = [s \in Servers |-> "none"]
    /\ listener = "closed"
    /\ framework \in ExpressMajors
    /\ requests = [r \in 1..MaxRequests |-> NoRequest]

\* The module body of the application in program order, then the events of
\* the event loop.
NextApp ==
    \E s \in Servers :
        \/ pc[s] = "unconstructed" /\ \E p \in AppConfigs : Constructor(s, "GreetingsMCP", p)
        \/ RegisterComponents(s)
        \/ Listen(s)
        \/ ListeningCallback(s)
        \/ ConnectSettles(s)
        \/ StartReturns(s)
        \/ \E r \in 1..MaxRequests : RequestArrives(s, r)
        \/ \E r \in 1..MaxRequests, outcome \in HandleOutcomes : HandleRequestSettles(r, outcome)
        \/ \E r \in 1..MaxRequests : RouteCallsNext(r)
        \/ \E r \in 1..MaxRequests : RouteRejects(r)

SpecApp == InitApp /\ [][NextApp]_vars

\* -------------------------------------------- specification of the registry
\* Registration and invocation on a constructed stdio instance of either
\* example class: the helpers are called with names and URIs that are and
\* are not in use, connect() and start() are called, and the tools are
\* invoked once the engine is bound.
InitRegistry ==
    Constructed_Instance({"GreetingsMCP", "CalculatorMCP"}, {Str("stdio")},
                         {DefaultPort}, {Undefined},
                         {TransportObj(StdioClass, 2, "undefined")})

NextRegistry ==
    \E s \in Servers :
        \/ Connect(s)
        \/ ConnectSettles(s)
        \/ \E n \in GreetNames : InvokeGreet(s, n)
        \/ InvokeRegisterCustomGreeting(s)
        \/ \E n \in GreetNames, m \in GreetMessages : InvokeCustomGreet(s, n, m)
        \/ \E op \in Operations, a \in OperandsA, b \in OperandsB :
               InvokeCalculate(s, op, a, b)
        \/ ReadResourceStart(s)
        \/ \E outcome \in ReadOutcomes : ReadResourceSettles(s, outcome)
        \/ Start(s)
        \/ \E d \in ExtraTools : CallRegisterToolHelper(s, d)
        \/ \E d \in ExtraResources : CallRegisterResourceHelper(s, d)

SpecRegistry == InitRegistry /\ [][NextRegistry]_vars

\* ================================================================== claims
Constructed(s) == pc[s] \in {"hook", "returned"}
ClassOfMode(m) == IF m = Str("streamable-http") THEN HttpClass ELSE StdioClass
IsCallerObject(v) == v \in CallerTransports

\* C1: after a successful construction, whatever operations follow, a stdio
\* server has no HTTP transporter and has a stdio transporter, and a
\* streamable-http server has no stdio transporter and has an HTTP one.
C1_ModeDeterminesAccessors ==
    \A s \in Servers :
        pc[s] = "returned" =>
            /\ transportMode[s] = Str("stdio") =>
                   /\ GetHTTPTransporter(s) = Undefined
                   /\ InstanceOf(GetStdioTransporter(s), StdioClass)
            /\ transportMode[s] = Str("streamable-http") =>
                   /\ GetStdioTransporter(s) = Undefined
                   /\ InstanceOf(GetHTTPTransporter(s), HttpClass)
            /\ transportMode[s].v \in TransportModes

C1_Witness ==
    \E s \in Servers :
        /\ pc[s] = "returned"
        /\ transportMode[s] = Str("streamable-http")
        /\ params[s].transport = TransportObj(StdioClass, 2, "undefined")
        /\ connectCalls[s] > 0
        /\ HasTool(s, "custom_greet")

\* C2: once the constructor has selected the transport, no later step
\* (registration hook, connect, start, tool invocation) changes what
\* getTransporter() returns.
C2_TransportNeverReassigned ==
    [][\A s \in Servers :
         Constructed(s) => GetTransporter(s)' = GetTransporter(s)]_vars

C2_Witness ==
    \E s \in Servers :
        /\ pc[s] = "returned"
        /\ GetTransporter(s).thrown = NoError
        /\ connectCalls[s] = MaxConnects
        /\ Len(console) > 0
        /\ result[s].isError

\* C3: a supplied handle whose class matches the declared mode is adopted as
\* the current transport; with no handle supplied the current transport is a
\* newly constructed object of the declared mode's class, and a newly
\* constructed HTTP transport has no session-id generator.
C3_SelectionByMode ==
    \A s \in Servers :
        Constructed(s) =>
            LET supplied == params[s].transport
                current == GetTransporter(s)
            IN /\ current.thrown = NoError
               /\ InstanceOf(current.value, ClassOfMode(transportMode[s]))
               /\ (supplied /= Undefined
                   /\ InstanceOf(supplied, ClassOfMode(transportMode[s])))
                      => current.value = supplied
               /\ supplied = Undefined =>
                      /\ ~IsCallerObject(current.value)
                      /\ current.value.id < nextId
                      /\ current.value.sessionIdGenerator = "undefined"

C3_Witness ==
    \E s \in Servers :
        /\ pc[s] = "returned"
        /\ transportMode[s] = Str("streamable-http")
        /\ params[s].transport = TransportObj(HttpClass, 1, "function")
        /\ GetTransporter(s).value = TransportObj(HttpClass, 1, "function")

\* The other fields of a configuration are within the schema.
OtherwiseValid(p) == BaseMCPConfigSchema([p EXCEPT !.transport = Undefined]).success
Mismatches(s) ==
    /\ params[s].transport /= Undefined
    /\ ~InstanceOf(params[s].transport,
                   ClassOfMode(ZDefault(params[s].transportMode, DefaultTransportMode)))
FreshDefault(s) ==
    /\ GetTransporter(s).thrown = NoError
    /\ GetTransporter(s).value /= params[s].transport
    /\ ~IsCallerObject(GetTransporter(s).value)
    /\ InstanceOf(GetTransporter(s).value, ClassOfMode(transportMode[s]))
    /\ GetTransporter(s).value.sessionIdGenerator = "undefined"

\* C4 as stated: every supplied handle that does not match the declared mode,
\* of the other class or of neither, is discarded without an error and a
\* newly constructed transport of the declared mode becomes current.
C4_Original_SilentFallbackForAnyMismatch ==
    \A s \in Servers :
        (pc[s] /= "unconstructed" /\ OtherwiseValid(params[s]) /\ Mismatches(s)) =>
            /\ pc[s] /= "threw"
            /\ FreshDefault(s)

\* C4 amended: a supplied handle of the other transport class is discarded
\* without an error in favour of a newly constructed transport of the
\* declared mode; a supplied value of neither transport class makes the
\* construction fail with the validation error and selects no transport.
C4_SilentFallbackForOtherVariant ==
    \A s \in Servers :
        (pc[s] /= "unconstructed" /\ OtherwiseValid(params[s]) /\ Mismatches(s)) =>
            IF InstanceOf(params[s].transport, HttpClass)
               \/ InstanceOf(params[s].transport, StdioClass)
            THEN /\ pc[s] \in {"hook", "returned"}
                 /\ thrown[s] /= "ZodError"
                 /\ FreshDefault(s)
            ELSE /\ pc[s] = "threw"
                 /\ thrown[s] = "ZodError"
                 /\ httpTransporter[s] = Undefined
                 /\ stdioTransporter[s] = Undefined

C4_Witness ==
    \E s \in Servers :
        /\ pc[s] = "returned"
        /\ transportMode[s] = Str("stdio")
        /\ params[s].transport = TransportObj(HttpClass, 1, "function")
        /\ FreshDefault(s)

\* A supplied field that is outside what the schema declares for it (a
\* missing name or version counts, host, port and mode may be omitted).
NameOutOfBounds(p) ==
    ~(p.name.t = "string" /\ Len(p.name.v) >= NameMin /\ Len(p.name.v) <= NameMax)
VersionOutOfBounds(p) ==
    ~(p.version.t = "string" /\ Len(p.version.v) >= VersionMin
      /\ Len(p.version.v) <= VersionMax)
HostOutOfBounds(p) ==
    /\ p.host /= Undefined
    /\ ~(p.host.t = "string" /\ Len(p.host.v) >= HostMin /\ Len(p.host.v) <= HostMax)
PortOutOfBounds(p) ==
    /\ p.port /= Undefined
    /\ ~(/\ p.port.t = "number"
         /\ p.port.whole >= PortMin
         /\ (p.port.whole < PortMax \/ (p.port.whole = PortMax /\ p.port.frac = 0)))
ModeUnrecognized(p) ==
    /\ p.transportMode /= Undefined
    /\ ~(p.transportMode.t = "string" /\ p.transportMode.v \in {"stdio", "streamable-http"})

\* C5: a configuration with a name, version, host or port outside its bounds
\* or an unrecognized transport mode makes the construction fail with the
\* validation error, and a construction that failed so has selected no
\* transport and has not invoked the registration hook.
C5_InvalidConfigurationAborts ==
    \A s \in Servers :
        pc[s] /= "unconstructed" =>
            /\ (\/ NameOutOfBounds(params[s]) \/ VersionOutOfBounds(params[s])
                \/ HostOutOfBounds(params[s]) \/ PortOutOfBounds(params[s])
                \/ ModeUnrecognized(params[s]))
                   => pc[s] = "threw" /\ thrown[s] = "ZodError"
            /\ thrown[s] = "ZodError" =>
                   /\ pc[s] = "threw"
                   /\ httpTransporter[s] = Undefined
                   /\ stdioTransporter[s] = Undefined
                   /\ engine[s] = Undefined
                   /\ hookCalls[s] = 0
                   /\ tools[s] = <<>> /\ resources[s] = <<>>

C5_Witness ==
    \E s \in Servers :
        /\ pc[s] = "threw" /\ thrown[s] = "ZodError"
        /\ params[s].port = Num(PortMax + 1, 0)
        /\ BaseMCPConfigSchema([params[s] EXCEPT !.port = Undefined]).success

\* C6: the fields of an accepted configuration are within bounds: version of
\* 1..10 characters, name of 2..100 characters, 1 <= port <= 65535 and a
\* transport mode that is stdio or streamable-http.
C6_AcceptedWithinBounds ==
    \A s \in Servers :
        Constructed(s) =>
            /\ version[s].t = "string"
            /\ 1 <= Len(version[s].v) /\ Len(version[s].v) <= 10
            /\ name[s].t = "string"
            /\ 2 <= Len(name[s].v) /\ Len(name[s].v) <= 100
            /\ port[s].t = "number"
            /\ 1 <= port[s].whole
            /\ (port[s].whole < 65535 \/ (port[s].whole = 65535 /\ port[s].frac = 0))
            /\ transportMode[s] \in {Str("stdio"), Str("streamable-http")}

C6_Witness ==
    \E s \in Servers :
        /\ pc[s] = "returned"
        /\ Len(name[s].v) = 100
        /\ Len(version[s].v) = 10
        /\ port[s] = Num(65535, 0)

\* C7: the port of an accepted configuration is an integer.
C7_AcceptedPortIsInteger ==
    \A s \in Servers : Constructed(s) => port[s].t = "number" /\ port[s].frac = 0

\* C8: an omitted host, port or transport mode is validated to "localhost",
\* 3000 and "stdio", and every supplied field keeps its supplied value.
C8_DefaultsApplied ==
    \A s \in Servers :
        Constructed(s) =>
            /\ host[s] = IF params[s].host = Undefined
                         THEN Str("localhost") ELSE params[s].host
            /\ port[s] = IF params[s].port = Undefined
                         THEN Num(3000, 0) ELSE params[s].port
            /\ transportMode[s] = IF params[s].transportMode = Undefined
                                  THEN Str("stdio") ELSE params[s].transportMode
            /\ name[s] = params[s].name
            /\ version[s] = params[s].version

C8_Witness ==
    \E s \in Servers :
        /\ pc[s] = "returned"
        /\ params[s].host = Undefined /\ host[s] = Str("localhost")
        /\ params[s].port = Undefined /\ port[s] = Num(3000, 0)
        /\ params[s].transportMode = Undefined /\ transportMode[s] = Str("stdio")

\* C9: getMetadata() after construction is the validated configuration's
\* name, version, host, port and transport mode.
C9_MetadataRoundTrip ==
    \A s \in Servers :
        Constructed(s) =>
            LET validated == BaseMCPConfigSchema(params[s]).data
            IN GetMetadata(s) =
                   [name |-> validated.name, version |-> validated.version,
                    transportMode |-> validated.transportMode,
                    host |-> validated.host, port |-> validated.port]

C9_Witness ==
    \E s \in Servers :
        /\ pc[s] = "returned" /\ connectCalls[s] = 0
        /\ params[s].host = Undefined
        /\ params[s].transportMode = Str("streamable-http")
        /\ GetMetadata(s).host = Str("localhost")
        /\ GetMetadata(s).port = Num(80, 5)

\* C10: the registration hook is invoked once per instance, inside the
\* constructor, in a state where the validated fields and the current
\* transport are set; an instance is returned only after the hook has run.
C10_HookOnceAfterSelection ==
    [][\A s \in Servers :
         /\ hookCalls'[s] /= hookCalls[s] =>
                /\ hookCalls[s] = 0 /\ hookCalls'[s] = 1
                /\ pc[s] = "hook"
                /\ GetMetadata(s) =
                       [name |-> BaseMCPConfigSchema(params[s]).data.name,
                        version |-> BaseMCPConfigSchema(params[s]).data.version,
                        transportMode |-> BaseMCPConfigSchema(params[s]).data.transportMode,
                        host |-> BaseMCPConfigSchema(params[s]).data.host,
                        port |-> BaseMCPConfigSchema(params[s]).data.port]
                /\ BaseMCPConfigSchema(params[s]).success
                /\ GetTransporter(s).thrown = NoError
                /\ InstanceOf(GetTransporter(s).value, ClassOfMode(transportMode[s]))
         /\ pc'[s] = "returned" => hookCalls'[s] = 1
         /\ pc'[s] \in {"unconstructed", "hook"} => hookCalls'[s] = 0]_vars

C10_Witness ==
    \E s \in Servers :
        /\ pc[s] = "returned" /\ hookCalls[s] = 1
        /\ Len(tools[s]) = 2 /\ Len(resources[s]) = 1

\* A step in which connect() is called, directly or by start().
ConnectCalled(s) ==
    \/ call[s] = "idle" /\ call'[s] = "connect:awaiting"
    \/ call[s] = "start:logged" /\ call'[s] = "start:awaiting"

\* C11: connect() binds the engine to exactly the handle getTransporter()
\* returns, the one of the declared mode and never the other variant even
\* when the instance holds it; when getTransporter() fails, connect() fails
\* with its error and binds nothing; nothing but connect() binds the engine.
C11_ConnectBindsGetTransporter ==
    [][\A s \in Servers :
         /\ ConnectCalled(s) /\ GetTransporter(s).thrown = NoError =>
                /\ engine'[s] = GetTransporter(s).value
                /\ engine'[s] = IF transportMode[s] = Str("streamable-http")
                                 THEN GetHTTPTransporter(s) ELSE GetStdioTransporter(s)
                /\ InstanceOf(engine'[s], ClassOfMode(transportMode[s]))
                /\ connectCalls'[s] = connectCalls[s] + 1
         /\ ConnectCalled(s) /\ GetTransporter(s).thrown /= NoError =>
                /\ engine'[s] = engine[s]
                /\ connectCalls'[s] = connectCalls[s]
                /\ started' = started
                /\ thrown'[s] = GetTransporter(s).thrown
         /\ engine'[s] /= engine[s] => ConnectCalled(s)]_vars

\* The engine is bound to the stdio handle of a stdio instance that also
\* holds an HTTP handle.
C11_Witness ==
    \E s \in Servers :
        /\ transportMode[s] = Str("stdio")
        /\ Truthy(httpTransporter[s]) /\ Truthy(stdioTransporter[s])
        /\ connectCalls[s] = 1
        /\ engine[s] = stdioTransporter[s]

NotInitialized ==
    {"HTTP transporter is not initialized", "Stdio transporter is not initialized"}

\* C12: once the constructor has selected the transport, the handle of the
\* declared mode exists, so getTransporter() returns it, and no call of
\* getTransporter(), connect() or start() fails with a not-initialized error.
C12_TransporterAlwaysInitialized ==
    \A s \in Servers :
        /\ Constructed(s) =>
               /\ GetTransporter(s).thrown = NoError
               /\ InstanceOf(GetTransporter(s).value, ClassOfMode(transportMode[s]))
        /\ thrown[s] \notin NotInitialized

\* connect() and then getTransporter() have been called on an HTTP instance
\* and on neither call an error was raised.
C12_Witness ==
    \E s \in Servers :
        /\ pc[s] = "returned" /\ transportMode[s] = Str("streamable-http")
        /\ connectCalls[s] = 1 /\ call[s] = "idle"
        /\ thrown[s] = NoError
        /\ engine[s] = GetTransporter(s).value

\* The transporter field of the declared mode.
DeclaredHandle(s) ==
    IF transportMode[s] = Str("streamable-http")
    THEN httpTransporter[s] ELSE stdioTransporter[s]

\* A step in which getTransporter() is called: by its owner, or by connect().
GetTransporterCalled(s) ==
    \/ call[s] = "idle" /\ call'[s] = "idle"
    \/ ConnectCalled(s)

\* C13: when the handle of the declared mode is absent, getTransporter()
\* throws the not-initialized error of that mode and returns nothing, not
\* the handle of the other mode even if the instance holds one; the call
\* leaves the configuration, both handles, the registries, the engine and
\* the lifecycle of the instance as they were.
C13_AbsentHandleFails ==
    [][\A s \in Servers :
         GetTransporterCalled(s) /\ ~Truthy(DeclaredHandle(s)) =>
             /\ GetTransporter(s).value = Undefined
             /\ GetTransporter(s).thrown =
                    IF transportMode[s] = Str("streamable-http")
                    THEN "HTTP transporter is not initialized"
                    ELSE "Stdio transporter is not initialized"
             /\ thrown'[s] = GetTransporter(s).thrown
             /\ UNCHANGED <<pc, cls, params, configVars, transportVars, registryVars,
                            engine, started, connectCalls, hookCalls, console,
                            result>>]_vars

\* getTransporter() has failed on a stdio instance that holds an HTTP handle
\* only, and the engine is bound to nothing.
C13_Witness ==
    \E s \in Servers :
        /\ transportMode[s] = Str("stdio")
        /\ ~Truthy(stdioTransporter[s]) /\ Truthy(httpTransporter[s])
        /\ thrown[s] = "Stdio transporter is not initialized"
        /\ call[s] = "idle"
        /\ engine[s] = Undefined /\ connectCalls[s] = 0

\* The positions of a start() in flight.
InStart == {"start:logged", "start:awaiting", "start:resumed"}

ToolNames(reg) == [i \in 1..Len(reg) |-> reg[i].name]

\* C15: registering a tool under a name that is in the registry throws the
\* engine's already-registered error and leaves the registry as it was, the
\* first descriptor kept; registering a tool under a new name succeeds and
\* adds it after the others, which stay as they were; once custom_greet is
\* registered next to greet, each of the two can be invoked, whichever is
\* invoked first.
C15_DuplicateToolNameRejected ==
    [][\A s \in Servers :
         /\ \A d \in ExtraTools :
                CallRegisterToolHelper(s, d) =>
                    /\ resources'[s] = resources[s]
                    /\ IF HasTool(s, d.name)
                       THEN /\ tools'[s] = tools[s]
                            /\ thrown'[s] = "Tool " \o d.name \o " is already registered"
                       ELSE /\ tools'[s] = Append(tools[s], d)
                            /\ thrown'[s] = NoError
         /\ InvokeRegisterCustomGreeting(s) /\ ~HasTool(s, "custom_greet") =>
                /\ tools'[s] = Append(tools[s], CustomGreetTool)
                /\ ~result'[s].isError
         /\ HasTool(s, "greet")' /\ HasTool(s, "custom_greet")' /\ Dispatching(s)' =>
                /\ (ENABLED InvokeGreet(s, "Ada"))'
                /\ (ENABLED InvokeCustomGreet(s, "Ada", "Welcome back."))'
                /\ InvokeGreet(s, "Ada") =>
                       (ENABLED InvokeCustomGreet(s, "Ada", "Welcome back."))'
                /\ InvokeCustomGreet(s, "Ada", "Welcome back.") =>
                       (ENABLED InvokeGreet(s, "Ada"))']_vars

\* A second tool was registered under a new name and a registration under
\* the name of the first was refused: the registry holds both tools and the
\* first one's descriptor is the original.
C15_Witness ==
    \E s \in Servers :
        /\ cls[s] = "GreetingsMCP"
        /\ ToolNames(tools[s]) = <<"greet", "regiter_custom_greeting", "farewell">>
        /\ tools[s][1] = Tool("greet", "Greet the user", TextSchema, "greet")
        /\ thrown[s] = "Tool greet is already registered"

HasResourceNamed(s, n) == \E i \in 1..Len(resources[s]) : resources[s][i].name = n
HasResourceAt(s, u) == \E i \in 1..Len(resources[s]) : resources[s][i].uri = u

GreetingsRegistry == RegisterAll(EmptyRegistry, GreetingsComponents)

\* C17: whenever the engine dispatches requests and custom_greet is not
\* registered, regiter_custom_greeting can be invoked, and its invocation
\* is one step that appends custom_greet after the tools registered before
\* and leaves those and the resources as they were; after construction the
\* registry changes in no other step, so every invocation finds either the
\* registry of the constructor or that registry with custom_greet added.
C17_LateRegistrationAtomic ==
    [][\A s \in Servers :
         /\ Dispatching(s) /\ ~HasTool(s, "custom_greet") =>
                ENABLED InvokeRegisterCustomGreeting(s)
         /\ InvokeRegisterCustomGreeting(s) /\ ~HasTool(s, "custom_greet") =>
                /\ tools'[s] = Append(tools[s], CustomGreetTool)
                /\ resources'[s] = resources[s]
                /\ result'[s] = ToolResult("Custom greeting registered successfully!")
         /\ pc[s] = "returned" /\ <<tools[s], resources[s]>> /= <<tools'[s], resources'[s]>> =>
                /\ Dispatching(s)
                /\ tools[s] = GreetingsRegistry.tools
                /\ tools'[s] = Append(GreetingsRegistry.tools, CustomGreetTool)
                /\ resources'[s] = resources[s]
         /\ pc[s] = "returned" =>
                /\ resources[s] = GreetingsRegistry.resources
                /\ tools[s] \in {GreetingsRegistry.tools,
                                 Append(GreetingsRegistry.tools, CustomGreetTool)}]_vars

\* regiter_custom_greeting has been invoked on a connected server: the
\* registry holds greet, the resource, regiter_custom_greeting and
\* custom_greet.
C17_Witness ==
    \E s \in Servers :
        /\ Truthy(engine[s])
        /\ ToolNames(tools[s]) = <<"greet", "regiter_custom_greeting", "custom_greet">>
        /\ tools[s][1] = GreetingsComponents[1] /\ tools[s][2] = GreetingsComponents[3]
        /\ resources[s] = <<GreetingsComponents[2]>>
        /\ result[s] = ToolResult("Custom greeting registered successfully!")

\* C18: an invocation of regiter_custom_greeting that finds custom_greet
\* registered yields a failed result that carries the error of the refused
\* registration, and changes nothing else: the registry, the engine's
\* binding, the position of the lifecycle and the last uncaught error are
\* what they were; greet and custom_greet can be invoked afterwards, and an
\* invocation of either with arguments of its input schema that follows a
\* failed result succeeds.
C18_HandlerErrorConfined ==
    [][\A s \in Servers :
         /\ InvokeRegisterCustomGreeting(s) /\ HasTool(s, "custom_greet") =>
                /\ result'[s] = ErrorResult("Tool custom_greet is already registered")
                /\ UNCHANGED <<pc, cls, params, configVars, transportVars,
                               registryVars, engine, started, nextId, console,
                               thrown, hookCalls, connectCalls, call>>
                /\ (ENABLED InvokeGreet(s, "Ada"))'
                /\ (ENABLED InvokeCustomGreet(s, "Ada", "Welcome back."))'
         /\ Dispatching(s) /\ HasTool(s, "custom_greet") =>
                ENABLED InvokeRegisterCustomGreeting(s)
         /\ result[s].isError =>
                /\ InvokeGreet(s, "Ada") =>
                       /\ ~result'[s].isError
                       /\ result'[s].structuredContent.text.t = "string"
                /\ \A n \in GreetNames, m \in GreetMessages :
                       InvokeCustomGreet(s, n, m) =>
                           /\ ~result'[s].isError
                           /\ result'[s].text = "Hello, " \o n \o "! " \o m]_vars

\* The second invocation of regiter_custom_greeting has failed: the caller
\* holds the failed result, the registry is the one the first invocation
\* left, and the engine is still bound.
C18_Witness ==
    \E s \in Servers :
        /\ result[s] = ErrorResult("Tool custom_greet is already registered")
        /\ tools[s] = Append(GreetingsRegistry.tools, CustomGreetTool)
        /\ resources[s] = GreetingsRegistry.resources
        /\ pc[s] = "returned" /\ Truthy(engine[s])

\* The configuration { name: n, version: "1.0", transportMode: "stdio" }.
ScenarioConfig(n) ==
    [name |-> Str(n), version |-> Str("1.0"), host |-> Undefined,
     port |-> Undefined, transportMode |-> Str("stdio"), transport |-> Undefined]

\* C19 as stated: the construction with { name: "T", version: "1.0",
\* transportMode: "stdio" } succeeds.
C19_Original_GreetScenario ==
    \A s \in Servers :
        params[s] = ScenarioConfig("T") /\ pc[s] /= "unconstructed" => Constructed(s)

\* C19: the construction with { name: "T", version: "1.0", transportMode:
\* "stdio" } throws the validation error, the name being shorter than two
\* characters, and no server exists to greet; on the server constructed with
\* { name: "Db", version: "1.0", transportMode: "stdio" } the greet tool
\* invoked with { name: "Ada" } returns a result whose structured content
\* has the text "Hello, Ada! Welcome to Db version 1.0.", and on every
\* server the text names the server's name and version.
C19_GreetScenario ==
    [][\A s \in Servers :
         /\ params'[s] = ScenarioConfig("T") /\ pc'[s] /= "unconstructed" =>
                /\ pc'[s] = "threw" /\ thrown'[s] = "ZodError"
                /\ ~ENABLED InvokeGreet(s, "Ada")
                /\ ~(ENABLED InvokeGreet(s, "Ada"))'
         /\ InvokeGreet(s, "Ada") =>
                /\ ~result'[s].isError
                /\ result'[s].structuredContent =
                       [text |-> Str("Hello, Ada! Welcome to " \o name[s].v
                                     \o " version " \o version[s].v \o ".")]
                /\ params[s] = ScenarioConfig("Db") =>
                       result'[s].structuredContent.text =
                           Str("Hello, Ada! Welcome to Db version 1.0.")]_vars

\* greet was invoked with { name: "Ada" } on the server constructed with
\* { name: "Db", version: "1.0", transportMode: "stdio" }.
C19_Witness ==
    \E s \in Servers :
        /\ params[s] = ScenarioConfig("Db") /\ pc[s] = "returned"
        /\ ~result[s].isError
        /\ result[s].structuredContent = [text |-> Str("Hello, Ada! Welcome to Db version 1.0.")]

\* C20: for every a, an invocation of calculate with { operation: "divide",
\* a, b: 0 } yields a result that is not a failure and whose structured
\* content is the error payload { error: "Division by zero" }, which is what
\* the caller receives; the server is as usable afterwards as it was.
C20_DivisionByZeroPayload ==
    [][\A s \in Servers : \A a \in OperandsA :
         InvokeCalculate(s, "divide", a, Num(0, 0)) =>
             /\ ~result'[s].isError
             /\ result'[s].structuredContent = [error |-> Str("Division by zero")]
             /\ UNCHANGED <<pc, registryVars, engine, call>>
             /\ (ENABLED InvokeCalculate(s, "add", a, Num(0, 0)))']_vars

\* A connect() of the instance has succeeded: the engine is bound to the
\* transporter of the instance and has started it.
Connected(s) ==
    /\ pc[s] = "returned" /\ Truthy(engine[s])
    /\ engine[s] = DeclaredHandle(s) /\ engine[s].id \in started

\* C23: once a connect() has succeeded, a further call of connect(), made
\* directly or by start(), is a no-op: it does not hand the transporter to
\* the engine again, it raises no error, and the instance stays connected.
C23_ConnectIdempotent ==
    [][\A s \in Servers :
         ConnectCalled(s) /\ Connected(s) =>
             /\ connectCalls'[s] = connectCalls[s]
             /\ thrown'[s] = NoError
             /\ engine'[s] = engine[s]
             /\ Connected(s)']_vars

\* The lifecycle state of an instance: constructed while the constructor has
\* selected the transport and not yet run the registration hook, registered
\* once it is returned, connected once the engine is bound to a transport.
Lifecycle(s) ==
    CASE pc[s] = "hook" -> "constructed"
      [] pc[s] = "returned" /\ ~Truthy(engine[s]) -> "registered"
      [] pc[s] = "returned" /\ Truthy(engine[s]) -> "connected"
      [] pc[s] = "threw" -> "failed"
      [] OTHER -> "none"

C25_MetadataFrozen ==
    [][\A s \in Servers :
         pc[s] = "returned" =>
             /\ GetMetadata(s)' = GetMetadata(s)
             /\ GetMetadata(s) = [name |-> Str("Db"), version |-> Str("1.0"),
                                  transportMode |-> Str("stdio"),
                                  host |-> Str("localhost"), port |-> Num(3000, 0)]
             /\ <<name[s], version[s], host[s], port[s], transportMode[s]>>' =
                    <<name[s], version[s], host[s], port[s], transportMode[s]>>]_vars

\* start() has returned, a tool was registered after construction and a
\* tool was invoked, and the metadata is the configuration.
C25_Witness ==
    \E s \in Servers :
        /\ Len(console) = 1 /\ call[s] = "idle" /\ Truthy(engine[s])
        /\ HasTool(s, "farewell")
        /\ ~result[s].isError /\ result[s] /= NoResult
        /\ GetMetadata(s).port = Num(3000, 0)
        /\ GetMetadata(s).name = Str("Db")

\* The sequence a is an initial part of the sequence b.
IsPrefix(a, b) == Len(a) <= Len(b) /\ SubSeq(b, 1, Len(a)) = a

\* C26: the registry only grows: in every step after construction each
\* registered tool and resource keeps its place and its descriptor, whether
\* the step is a registration that succeeds, one that is refused, an
\* invocation, or a call of connect() or start().
C26_RegistryOnlyGrows ==
    [][\A s \in Servers :
         pc[s] = "returned" =>
             /\ IsPrefix(tools[s], tools'[s])
             /\ IsPrefix(resources[s], resources'[s])
             /\ Len(tools'[s]) + Len(resources'[s])
                    <= Len(tools[s]) + Len(resources[s]) + 1]_vars

\* Tools and a resource were registered after construction, by a helper
\* call and by a handler, and a registration was refused: the descriptors
\* of the constructor are in their places.
C26_Witness ==
    \E s \in Servers :
        /\ cls[s] = "GreetingsMCP"
        /\ IsPrefix(GreetingsRegistry.tools, tools[s])
        /\ IsPrefix(GreetingsRegistry.resources, resources[s])
        /\ HasTool(s, "farewell") /\ HasTool(s, "custom_greet")
        /\ Len(resources[s]) = 2
        /\ thrown[s] = "Resource file:///other.txt is already registered"

\* C22: no two instances have the same transport object as their current
\* transport, also when the instances are constructed with transport
\* objects supplied by the caller.
C22_TransportExclusivelyOwned ==
    \A s \in Fleet : \A t \in Fleet \ {s} :
        pc[s] \in {"hook", "returned"} /\ pc[t] \in {"hook", "returned"} =>
            DeclaredHandle(s) /= DeclaredHandle(t)

\* A helper call is possible: the constructor has returned and the instance
\* is not between the two statements of start().
CanRegister(s) == pc[s] = "returned" /\ call[s] /= "start:logged"

\* What a resources/read can answer with.
ReadResults == {McpReadResource(outcome) : outcome \in ReadOutcomes}

GivenTo(req) == {req.given[i] : i \in 1..Len(req.given)}

\* The route is through with the request.
Finished(req) == req.phase \in {"done", "unhandledRejection"}

\* C21: whenever handleRequest raised an error for a request and the route
\* is through with it, the error handler was given the request and answered
\* it with status 500 and the error's message.
C21_ErrorsAnsweredByErrorHandler ==
    \A r \in 1..MaxRequests :
        LET req == requests[r]
        IN req.error /= NoError /\ Finished(req) =>
               /\ "errorHandler" \in GivenTo(req)
               /\ \E i \in 1..Len(req.answers) :
                      /\ req.answers[i].by = "errorHandler"
                      /\ req.answers[i].status = 500
                      /\ req.answers[i].error = req.error

\* C28: every request that was handed to handleRequest was handed over when
\* the engine was bound to the HTTP transporter and no connect() was in
\* flight.
C28_NoDelegationBeforeConnect ==
    \A r \in 1..MaxRequests :
        "transport" \in GivenTo(requests[r]) => requests[r].bound

\* Two requests were handed to handleRequest while the first was still being
\* handled, both after start() had returned with the engine bound.
C28_Witness ==
    \E s \in Servers :
        /\ requests[1].phase = "delegated" /\ requests[1].bound
        /\ requests[2].phase = "delegated" /\ requests[2].bound
        /\ engine[s] = httpTransporter[s] /\ Truthy(engine[s])
        /\ call[s] = "idle" /\ listener = "listening"
        /\ console = <<"Starting Greetings MCP v1.0.0 on http://localhost:3000">>

\* C29: a request that met no HTTP transporter was given to the route alone,
\* which answered 500 and nothing else happened; a request that was handed
\* to the HTTP transport was given to no component after it.
C29_AnsweredByExactlyOne ==
    \A r \in 1..MaxRequests :
        LET req == requests[r]
        IN req.phase /= "none" =>
               IF "transport" \in GivenTo(req)
               THEN req.given[Len(req.given)] = "transport"
               ELSE /\ req.given = <<"route">>
                    /\ Len(req.answers) = 1
                    /\ req.answers[1].by = "route" /\ req.answers[1].status = 500
                    /\ req.socket = "open"

====
